---------------------------- MODULE Spec2Model ----------------------------
(***************************************************************************)
(* A model of grec (src/grec/grec.py): the interval store Intervals, the   *)
(* ColoredString built on it, and the Matcher that drives both.            *)
(*                                                                         *)
(* An interval is the tuple <<start, end>>.  A store is a function from    *)
(* intervals to payloads, as Intervals.data is a dict from tuples to       *)
(* values.  Python's None is the string "None".                            *)
(***************************************************************************)
EXTENDS Integers, Sequences, FiniteSets, TLC

VARIABLES
    data,       \* Intervals.data of the store being operated on
    last,       \* the last call: its name, arguments, outcome, and the state before it
    patterns,   \* Matcher.patterns, the OrderedDict, as a sequence of entries
    clock,      \* history: the number of rule-set calls made so far
    addedAt,    \* history: for each pattern string added and not removed since,
                \* the clock of its most recent successful add
    it          \* the generator match_iter returned, with the iterable it reads

vars == <<data, last, patterns, clock, addedAt, it>>

None == "None"

(***************************************************************************)
(* Bounds of the model.                                                    *)
(***************************************************************************)
\* The largest integer used as an interval endpoint.
MaxPos == 3
\* The largest number of keys of a store built by item assignment.
MaxKeys == 2
\* The number of rule-set calls (add, remove) of a run whose history is kept.
MaxOps == 4
\* The longest text matched.
MaxLen == 3
\* The largest number of rules of a Matcher holding whole-match rules only.
MaxRules == 3
\* The largest number of rules of a Matcher holding rules of both variants.
MaxMixedRules == 2
\* The largest number of lines of an iterable passed to match_iter.
MaxLines == 2

\* Endpoints passed to the store.  The store only compares endpoints, so a
\* range of negative integers behaves as this one shifted.
Positions == 0..MaxPos

\* Every pair of endpoints, the invalid ones (start >= end) included.
Pairs == Positions \X Positions

\* (foreground, background) tuples as _termcolor_names returns them.
ColorInfos == {<<"red", None>>, <<"blue", "on_white">>}

(***************************************************************************)
(* class Intervals                                                         *)
(***************************************************************************)
EmptyData == [k \in {} |-> None]

\* self.data[key] = value
Put(d, key, value) == [k \in (DOMAIN d) \cup {key} |-> IF k = key THEN value ELSE d[k]]

\* setitem with the assert weakened to key[0] <= key[1].
setitem_le(d, key, value) ==
    IF key[1] <= key[2]
    THEN [data |-> Put(d, key, value), raised |-> None]
    ELSE [data |-> d, raised |-> "AssertionError"]

\* Intervals.__setitem__: the assert, then the dict store.
setitem(d, key, value) ==
    IF key[1] < key[2]
    THEN [data |-> Put(d, key, value), raised |-> None]
    ELSE [data |-> d, raised |-> "AssertionError"]

\* Intervals.__delitem__: del self.data[key], a KeyError when key is absent.
delitem(d, key) ==
    IF key \in DOMAIN d
    THEN [data |-> [k \in (DOMAIN d) \ {key} |-> d[k]], raised |-> None]
    ELSE [data |-> d, raised |-> "KeyError"]

\* tuple_lt comparing the end points first.
tuple_lt_end_first(k1, k2) ==
    k1[2] < k2[2] \/ (k1[2] = k2[2] /\ k1[1] < k2[1])

\* k1 < k2 for two tuples of two integers, as sorted compares the keys.
tuple_lt(k1, k2) ==
    k1[1] < k2[1] \/ (k1[1] = k2[1] /\ k1[2] < k2[2])

\* key put into the sorted sequence seq, before the first element it is less
\* than.
RECURSIVE insort(_, _)
insort(seq, key) ==
    IF seq = <<>> THEN <<key>>
    ELSE IF tuple_lt(key, Head(seq)) THEN <<key>> \o seq
    ELSE <<Head(seq)>> \o insort(Tail(seq), key)

\* sorted(keys): the list of the keys of a dict in ascending order.
RECURSIVE sorted(_)
sorted(keys) ==
    IF keys = {} THEN <<>>
    ELSE LET key == CHOOSE k \in keys : TRUE
         IN  insort(sorted(keys \ {key}), key)

\* Intervals.__getitem__
getitem(d, key) == d[key]

\* Intervals.__iter__, run to its end: the keys in the order iterated.
intervals_iter(d) == sorted(DOMAIN d)

\* Intervals.__len__
intervals_len(d) == Cardinality(DOMAIN d)

\* Intervals.items(), of the MutableMapping mixin, run to its end: (key,
\* self[key]) for each key of __iter__.
intervals_items(d) ==
    LET keys == intervals_iter(d)
    IN  [i \in 1..Len(keys) |-> <<keys[i], getitem(d, keys[i])>>]

\* _interval_overlap with touching endpoints counted as overlap.
interval_overlap_le(interval1, interval2) ==
    interval1[1] <= interval2[2] /\ interval1[2] >= interval2[1]

\* Intervals._interval_overlap
interval_overlap(interval1, interval2) ==
    LET start1 == interval1[1]
        end1 == interval1[2]
        start2 == interval2[1]
        end2 == interval2[2]
    IN  start1 < end2 /\ end1 > start2

\* Intervals.overlap
overlap(d, interval) == {i \in DOMAIN d : interval_overlap(i, interval)}

\* The orders in which a Python set or dict with the elements S may be iterated.
Orders(S) == {o \in [1..Cardinality(S) -> S] : \A i, j \in 1..Cardinality(S) : o[i] = o[j] => i = j}

\* Intervals.__init__(intervals): item assignment of each item of the given
\* dict in its iteration order; the first failing assignment ends it.
RECURSIVE init_loop(_, _, _)
init_loop(d, intervals, order) ==
    IF order = <<>> THEN [data |-> d, raised |-> None]
    ELSE LET r == setitem(d, Head(order), intervals[Head(order)])
         IN  IF r.raised # None THEN r
             ELSE init_loop(r.data, intervals, Tail(order))

(***************************************************************************)
(* class ColoredString                                                     *)
(***************************************************************************)
\* truncate_one without the right-hand remainder.
truncate_one_no_right(d, interval, start, end) ==
    LET d1 == IF interval[1] < start
              THEN setitem(d, <<interval[1], start>>, d[interval]).data
              ELSE d
    IN  delitem(d1, interval).data

\* The body of apply_color's loop for one overlapping interval.
truncate_one(d, interval, start, end) ==
    LET other_start == interval[1]
        other_end == interval[2]
        d1 == IF other_start < start
              THEN setitem(d, <<other_start, start>>, d[interval]).data
              ELSE d
        d2 == IF end < other_end
              THEN setitem(d1, <<end, other_end>>, d1[interval]).data
              ELSE d1
    IN  delitem(d2, interval).data

\* apply_color's loop over self.intervals.overlap((start, end)), a set, in
\* the order its iteration takes.
RECURSIVE truncate_loop(_, _, _, _)
truncate_loop(d, order, start, end) ==
    IF order = <<>> THEN d
    ELSE truncate_loop(truncate_one(d, Head(order), start, end), Tail(order), start, end)

\* apply_color without the loop: overlapped intervals stay as they are.
apply_color_no_truncate(d, order, start, end, color_info) ==
    setitem(d, <<start, end>>, color_info)

\* ColoredString.apply_color: the loop, then the item assignment of the new
\* interval, whose assert is the only check of start < end.
apply_color(d, order, start, end, color_info) ==
    setitem(truncate_loop(d, order, start, end), <<start, end>>, color_info)

\* string[a:b] for indices that are not negative: the characters at the
\* positions a <= i < b that the string has.
slice(string, a, b) ==
    LET hi == IF b <= Len(string) THEN b ELSE Len(string)
    IN  IF a >= hi THEN <<>> ELSE SubSeq(string, a + 1, hi)

\* termcolor.colored(text, *color_info): the text wrapped as one unit.
colored(text, color_info) ==
    [text |-> text, wrapped |-> TRUE, color_info |-> color_info]

\* A segment of the string as it is.
plain(text) ==
    [text |-> text, wrapped |-> FALSE, color_info |-> <<None, None>>]

\* str_loop that never advances offset.
RECURSIVE str_loop_keep_offset(_, _, _, _)
str_loop_keep_offset(string, items, offset, segments) ==
    IF items = <<>> THEN Append(segments, plain(slice(string, offset, Len(string))))
    ELSE LET start == items[1][1][1]
             end == items[1][1][2]
             color_info == items[1][2]
         IN  str_loop_keep_offset(string, Tail(items), offset,
                      segments \o <<plain(slice(string, offset, start)),
                                    colored(slice(string, start, end), color_info)>>)

\* ColoredString.__str__, the loop over self.intervals.items() and the
\* segment appended after it.
RECURSIVE str_loop(_, _, _, _)
str_loop(string, items, offset, segments) ==
    IF items = <<>> THEN Append(segments, plain(slice(string, offset, Len(string))))
    ELSE LET start == items[1][1][1]
             end == items[1][1][2]
             color_info == items[1][2]
         IN  str_loop(string, Tail(items), end,
                      segments \o <<plain(slice(string, offset, start)),
                                    colored(slice(string, start, end), color_info)>>)

\* ''.join(segments): the segments in order; an empty segment of the string
\* adds nothing.
join(segments) == SelectSeq(segments, LAMBDA seg : seg.wrapped \/ seg.text # <<>>)

\* ColoredString.__str__
str(string, d) == join(str_loop(string, intervals_items(d), 0, <<>>))

(***************************************************************************)
(* The regex engine (module re), for the sub-language the model draws its  *)
(* patterns from.  A regex and a text are sequences of one-character       *)
(* strings.                                                                *)
(*     regex  ::= branch ("|" branch)*                                     *)
(*     branch ::= item*                                                    *)
(*     item   ::= "a" | "b" | "." | "(" item* ")"                          *)
(* Groups are numbered by their opening parenthesis.  A regex with         *)
(* unbalanced parentheses does not compile.  A "|" inside a group is       *)
(* outside the sub-language; no pattern of the model has one.              *)
(***************************************************************************)
Alphabet == {"a", "b"}

\* The strings colored: the texts matched, the lines read.
Texts == UNION {[1..n -> Alphabet] : n \in 0..MaxLen}

\* What the engine reports for a group that did not participate.
NoSpan == <<-1, -1>>

Min(S) == CHOOSE x \in S : \A y \in S : x <= y

\* The parser: `done` are the finished branches, `chars` the characters of
\* the current branch, `groups` its closed groups as <<number, start, end>>
\* (offsets into chars), `stack` the open groups, `n` the groups so far.
RECURSIVE parse(_, _, _)
parse(regex, i, st) ==
    IF i > Len(regex)
    THEN IF st.stack # <<>>
         THEN [ok |-> FALSE]
         ELSE [ok |-> TRUE, ngroups |-> st.n,
               branches |-> Append(st.done, [chars |-> st.chars, groups |-> st.groups])]
    ELSE LET t == regex[i]
         IN  CASE t = "(" ->
                    parse(regex, i + 1,
                          [st EXCEPT !.stack = Append(@, <<st.n + 1, Len(st.chars)>>),
                                     !.n = @ + 1])
               [] t = ")" ->
                    IF st.stack = <<>>
                    THEN [ok |-> FALSE]
                    ELSE LET top == st.stack[Len(st.stack)]
                         IN  parse(regex, i + 1,
                                   [st EXCEPT !.stack = SubSeq(@, 1, Len(@) - 1),
                                              !.groups = @ \cup {<<top[1], top[2], Len(st.chars)>>}])
               [] t = "|" ->
                    IF st.stack # <<>>
                    THEN [ok |-> FALSE]
                    ELSE parse(regex, i + 1,
                               [st EXCEPT !.done = Append(@, [chars |-> st.chars, groups |-> st.groups]),
                                          !.chars = <<>>,
                                          !.groups = {}])
               [] OTHER ->
                    parse(regex, i + 1, [st EXCEPT !.chars = Append(@, t)])

\* re.compile(regex): the compiled pattern, or ok = FALSE for re.error.
compile(regex) ==
    parse(regex, 1, [done |-> <<>>, chars |-> <<>>, groups |-> {}, stack |-> <<>>, n |-> 0])

\* Whether the branch matches text at offset p (0-based).
branch_matches(branch, text, p) ==
    /\ p + Len(branch.chars) <= Len(text)
    /\ \A j \in 1..Len(branch.chars) :
         branch.chars[j] = "." \/ branch.chars[j] = text[p + j]

\* The first branch, in the order of the alternation, that matches at p
\* (with a non-empty match unless allow_empty); 0 when there is none.
match_at(c, text, p, allow_empty) ==
    LET ok == {b \in 1..Len(c.branches) :
                 /\ branch_matches(c.branches[b], text, p)
                 /\ (allow_empty \/ Len(c.branches[b].chars) > 0)}
    IN  IF ok = {} THEN 0 ELSE Min(ok)

\* re_match.regs of the match of branch b at p: the span of the match, then
\* the span of every group of the pattern.
regs_of(c, b, p) ==
    LET branch == c.branches[b]
        group(g) == IF \E t \in branch.groups : t[1] = g
                    THEN LET t == CHOOSE t \in branch.groups : t[1] = g
                         IN  <<p + t[2], p + t[3]>>
                    ELSE NoSpan
    IN  [g \in 1..(c.ngroups + 1) |->
           IF g = 1 THEN <<p, p + Len(branch.chars)>> ELSE group(g - 1)]

\* pattern.finditer(text) from offset pos on: the leftmost match, then the
\* search resumes at its end; after an empty match at `empty_at` the next
\* match there must be non-empty (Python 3.7 and later).
RECURSIVE finditer_from(_, _, _, _)
finditer_from(c, text, pos, empty_at) ==
    IF pos > Len(text) THEN <<>>
    ELSE LET b == match_at(c, text, pos, pos # empty_at)
         IN  IF b = 0 THEN finditer_from(c, text, pos + 1, empty_at)
             ELSE LET regs == regs_of(c, b, pos)
                  IN  IF regs[1][2] = pos
                      THEN <<regs>> \o finditer_from(c, text, pos, pos)
                      ELSE <<regs>> \o finditer_from(c, text, regs[1][2], -1)

\* pattern.finditer(text): the sequence of re_match.regs of the matches.
finditer(c, text) == finditer_from(c, text, 0, -1)

(***************************************************************************)
(* class Matcher                                                           *)
(*                                                                         *)
(* An entry of self.patterns is [regex, group, color_info]: regex is the   *)
(* key, the pattern string; the compiled pattern the code keeps under      *)
(* 'regex' is compile(regex).                                              *)
(***************************************************************************)
\* The keys of termcolor.COLORS and termcolor.HIGHLIGHTS.
COLORS == {"grey", "red", "green", "yellow", "blue", "magenta", "cyan", "white"}
HIGHLIGHTS == {"on_" \o c : c \in COLORS}

\* Matcher._termcolor_names
termcolor_names(foreground, background) ==
    LET bg == IF background # None THEN "on_" \o background ELSE None
    IN  IF foreground # None /\ foreground # "" /\ foreground \notin COLORS
        THEN [raised |-> "ValueError"]
        ELSE IF bg # None /\ bg \notin HIGHLIGHTS
        THEN [raised |-> "ValueError"]
        ELSE [raised |-> None, value |-> <<foreground, bg>>]

\* self._termcolor_names(*colors) for a tuple colors of one or two names.
termcolor_names_star(colors) ==
    termcolor_names(colors[1], IF Len(colors) >= 2 THEN colors[2] ELSE None)

\* The keys of the OrderedDict.
Keys(pats) == {pats[i].regex : i \in 1..Len(pats)}

\* del self.patterns[regex]
del_pattern(pats, regex) == SelectSeq(pats, LAMBDA e : e.regex # regex)

\* _add_to_patterns that leaves an entry already present as it is.
add_to_patterns_keep_old(pats, regex, pattern) ==
    IF regex \in Keys(pats) THEN pats ELSE Append(pats, pattern)

\* _add_to_patterns without the del: the OrderedDict replaces the value of a
\* key it holds in place.
add_to_patterns_in_place(pats, regex, pattern) ==
    IF regex \in Keys(pats)
    THEN [i \in 1..Len(pats) |-> IF pats[i].regex = regex THEN pattern ELSE pats[i]]
    ELSE Append(pats, pattern)

\* Matcher._add_to_patterns
add_to_patterns(pats, regex, pattern) ==
    Append(IF regex \in Keys(pats) THEN del_pattern(pats, regex) ELSE pats, pattern)

\* add_pattern that drops the entry of regex before the colors are
\* translated.
add_pattern_del_first(pats, regex, foreground, background) ==
    LET names == termcolor_names(foreground, background)
        rest == IF regex \in Keys(pats) THEN del_pattern(pats, regex) ELSE pats
    IN  IF ~compile(regex).ok THEN [patterns |-> pats, raised |-> "re.error"]
        ELSE IF names.raised # None THEN [patterns |-> rest, raised |-> names.raised]
        ELSE [patterns |-> Append(rest, [regex |-> regex, group |-> FALSE,
                                         color_info |-> names.value]),
              raised |-> None]

\* Matcher.add_pattern: the dict display compiles the regex, then translates
\* the colors; either may raise before _add_to_patterns is called.
add_pattern(pats, regex, foreground, background) ==
    LET names == termcolor_names(foreground, background)
    IN  IF ~compile(regex).ok THEN [patterns |-> pats, raised |-> "re.error"]
        ELSE IF names.raised # None THEN [patterns |-> pats, raised |-> names.raised]
        ELSE [patterns |-> add_to_patterns(pats, regex,
                               [regex |-> regex, group |-> FALSE, color_info |-> names.value]),
              raised |-> None]

\* Matcher.add_group_pattern
add_group_pattern(pats, regex, args) ==
    LET names == [i \in 1..Len(args) |-> termcolor_names_star(args[i])]
    IN  IF ~compile(regex).ok THEN [patterns |-> pats, raised |-> "re.error"]
        ELSE IF \E i \in 1..Len(args) : names[i].raised # None
        THEN [patterns |-> pats, raised |-> "ValueError"]
        ELSE [patterns |-> add_to_patterns(pats, regex,
                               [regex |-> regex, group |-> TRUE,
                                color_info |-> [i \in 1..Len(args) |-> names[i].value]]),
              raised |-> None]

\* remove_pattern as self.patterns.pop(regex, None): no error for a key the
\* OrderedDict does not hold.
remove_pattern_pop(pats, regex) ==
    [patterns |-> del_pattern(pats, regex), raised |-> None]

\* Matcher.remove_pattern
remove_pattern(pats, regex) ==
    IF regex \in Keys(pats)
    THEN [patterns |-> del_pattern(pats, regex), raised |-> None]
    ELSE [patterns |-> pats, raised |-> "KeyError"]

\* itertools.zip_longest(intervals, colors, fillvalue=fillvalue)
zip_longest(intervals, colors, fillvalue) ==
    LET n == IF Len(intervals) >= Len(colors) THEN Len(intervals) ELSE Len(colors)
    IN  [i \in 1..n |-> <<IF i <= Len(intervals) THEN intervals[i] ELSE fillvalue,
                          IF i <= Len(colors) THEN colors[i] ELSE fillvalue>>]

\* pairs_of with the missing colors filled with the first color.
pairs_of_fill_first(pattern, regs) ==
    LET intervals == IF pattern.group THEN Tail(regs) ELSE <<regs[1]>>
        colors0 == IF pattern.group THEN pattern.color_info ELSE <<pattern.color_info>>
        colors == SubSeq(colors0, 1, IF Len(colors0) <= Len(intervals) THEN Len(colors0) ELSE Len(intervals))
    IN  IF colors = <<>> THEN <<>>
        ELSE zip_longest(intervals, colors, colors[1])

\* Matcher.match, for one re_match: the (interval, color_info) pairs to
\* apply, none when the truncated colors are empty.
pairs_of(pattern, regs) ==
    LET intervals == IF pattern.group THEN Tail(regs) ELSE <<regs[1]>>
        colors0 == IF pattern.group THEN pattern.color_info ELSE <<pattern.color_info>>
        \* colors[:len(intervals)]
        colors == SubSeq(colors0, 1, IF Len(colors0) <= Len(intervals) THEN Len(colors0) ELSE Len(intervals))
    IN  IF colors = <<>> THEN <<>>
        ELSE zip_longest(intervals, colors, colors[Len(colors)])

\* apply_pairs that passes over the pairs whose interval has start >= end.
RECURSIVE apply_pairs_skip_invalid(_, _)
apply_pairs_skip_invalid(o, pairs) ==
    IF pairs = <<>> THEN {o}
    ELSE LET start == pairs[1][1][1]
             end == pairs[1][1][2]
             color_info == pairs[1][2]
             calls == Append(o.calls, pairs[1])
             rs == {apply_color(o.data, order, start, end, color_info) :
                      order \in Orders(overlap(o.data, <<start, end>>))}
         IN  IF start >= end THEN apply_pairs_skip_invalid(o, Tail(pairs))
             ELSE UNION {IF r.raised # None
                         THEN {[data |-> r.data, raised |-> r.raised, calls |-> calls]}
                         ELSE apply_pairs_skip_invalid(
                                  [data |-> r.data, raised |-> None, calls |-> calls],
                                  Tail(pairs)) : r \in rs}

\* Matcher.match, the innermost loop: apply_color for each pair, until one
\* raises.  An outcome is [data, raised, calls]: the store, the error if any,
\* and the apply_color calls made so far, the failing one included.  The
\* result is the set of outcomes over the iteration orders apply_color may take.
RECURSIVE apply_pairs(_, _)
apply_pairs(o, pairs) ==
    IF pairs = <<>> THEN {o}
    ELSE LET start == pairs[1][1][1]
             end == pairs[1][1][2]
             color_info == pairs[1][2]
             calls == Append(o.calls, pairs[1])
             rs == {apply_color(o.data, order, start, end, color_info) :
                      order \in Orders(overlap(o.data, <<start, end>>))}
         IN  UNION {IF r.raised # None
                    THEN {[data |-> r.data, raised |-> r.raised, calls |-> calls]}
                    ELSE apply_pairs([data |-> r.data, raised |-> None, calls |-> calls],
                                     Tail(pairs)) : r \in rs}

\* Matcher.match, the loop over pattern['regex'].finditer(text).
RECURSIVE match_matches(_, _, _)
match_matches(o, pattern, matches) ==
    IF matches = <<>> THEN {o}
    ELSE UNION {IF r.raised # None THEN {r}
                ELSE match_matches(r, pattern, Tail(matches)) :
                  r \in apply_pairs(o, pairs_of(pattern, Head(matches)))}

\* match_patterns taking the patterns in reverse order.
RECURSIVE match_patterns_reversed(_, _, _)
match_patterns_reversed(o, pats, text) ==
    IF pats = <<>> THEN {o}
    ELSE UNION {IF r.raised # None THEN {r}
                ELSE match_patterns_reversed(r, SubSeq(pats, 1, Len(pats) - 1), text) :
                  r \in match_matches(o, pats[Len(pats)],
                                      finditer(compile(pats[Len(pats)].regex), text))}

\* Matcher.match, the loop over self.patterns.values().
RECURSIVE match_patterns(_, _, _)
match_patterns(o, pats, text) ==
    IF pats = <<>> THEN {o}
    ELSE UNION {IF r.raised # None THEN {r}
                ELSE match_patterns(r, Tail(pats), text) :
                  r \in match_matches(o, Head(pats),
                                      finditer(compile(Head(pats).regex), text))}

\* match that starts from a store which holds an interval already, not from
\* the store of a new ColoredString.
match_on_used_store(pats, text) ==
    match_patterns([data |-> Put(EmptyData, <<0, 1>>, <<"red", None>>), raised |-> None,
                    calls |-> <<>>], pats, text)

\* Matcher.match(text): a new ColoredString, then the loops; the outcomes.
match(pats, text) ==
    match_patterns([data |-> EmptyData, raised |-> None, calls |-> <<>>], pats, text)

\* gen_next that computes every result with the rule set with which the
\* first result was computed.
gen_next_bound_early(g, pats) ==
    LET g1 == [g EXCEPT !.requested = @ + 1]
        bound == IF g.used = <<>> THEN pats ELSE g.used[1]
    IN  IF g.state = "closed" \/ g.pulled = Len(g.iterable)
        THEN {[it |-> [g1 EXCEPT !.state = "closed"], raised |-> "StopIteration",
               text |-> <<>>, data |-> EmptyData]}
        ELSE LET line == g.iterable[g.pulled + 1]
             IN  {IF o.raised # None
                  THEN [it |-> [g1 EXCEPT !.state = "closed", !.pulled = @ + 1],
                        raised |-> o.raised, text |-> line, data |-> o.data]
                  ELSE [it |-> [g1 EXCEPT !.state = "suspended", !.pulled = @ + 1,
                                          !.results = Append(@, [string |-> line, data |-> o.data]),
                                          !.used = Append(@, pats)],
                        raised |-> None, text |-> line, data |-> o.data] :
                    o \in match(bound, line)}

\* gen_next that takes the line after the one it matches from the iterable
\* as well, when there is one.
gen_next_prefetch(g, pats) ==
    LET g1 == [g EXCEPT !.requested = @ + 1]
        ahead == IF g.pulled + 2 <= Len(g.iterable) THEN 2 ELSE 1
    IN  IF g.state = "closed" \/ g.pulled = Len(g.iterable)
        THEN {[it |-> [g1 EXCEPT !.state = "closed"], raised |-> "StopIteration",
               text |-> <<>>, data |-> EmptyData]}
        ELSE LET line == g.iterable[g.pulled + 1]
             IN  {IF o.raised # None
                  THEN [it |-> [g1 EXCEPT !.state = "closed", !.pulled = @ + ahead],
                        raised |-> o.raised, text |-> line, data |-> o.data]
                  ELSE [it |-> [g1 EXCEPT !.state = "suspended", !.pulled = @ + ahead,
                                          !.results = Append(@, [string |-> line, data |-> o.data]),
                                          !.used = Append(@, pats)],
                        raised |-> None, text |-> line, data |-> o.data] :
                    o \in match(pats, line)}

\* No generator: the value of `it` before match_iter is called.
NoIterator ==
    [state |-> "none", iterable |-> <<>>, pulled |-> 0, requested |-> 0,
     results |-> <<>>, used |-> <<>>]

\* Matcher.match_iter(iterable): a generator that has not run yet.  `pulled`
\* counts the items taken from the iterable and `results` holds the
\* ColoredStrings yielded, each as its string and its store; `requested`,
\* the number of next() calls, and `used`, the rule set at each yield, are
\* history.
match_iter(iterable) ==
    [state |-> "created", iterable |-> iterable, pulled |-> 0, requested |-> 0,
     results |-> <<>>, used |-> <<>>]

\* next() on the generator of match_iter: StopIteration from a closed
\* generator, or when the iterable has no further item, which closes it;
\* else the item is taken and matched with the rules of the Matcher as they
\* are now, and the ColoredString is yielded, or the error of match leaves
\* the generator, closing it.  The outcomes are [it, raised, text, data].
gen_next(g, pats) ==
    LET g1 == [g EXCEPT !.requested = @ + 1]
    IN  IF g.state = "closed" \/ g.pulled = Len(g.iterable)
        THEN {[it |-> [g1 EXCEPT !.state = "closed"], raised |-> "StopIteration",
               text |-> <<>>, data |-> EmptyData]}
        ELSE LET line == g.iterable[g.pulled + 1]
             IN  {IF o.raised # None
                  THEN [it |-> [g1 EXCEPT !.state = "closed", !.pulled = @ + 1],
                        raised |-> o.raised, text |-> line, data |-> o.data]
                  ELSE [it |-> [g1 EXCEPT !.state = "suspended", !.pulled = @ + 1,
                                          !.results = Append(@, [string |-> line, data |-> o.data]),
                                          !.used = Append(@, pats)],
                        raised |-> None, text |-> line, data |-> o.data] :
                    o \in match(pats, line)}

(***************************************************************************)
(* Operations on one ColoredString, created empty.                         *)
(***************************************************************************)
InitColored ==
    /\ data = EmptyData
    /\ last = [op |-> "ColoredString"]
    /\ patterns = <<>>
    /\ clock = 0
    /\ addedAt = <<>>
    /\ it = NoIterator

ApplyColor ==
    \E start \in Positions, end \in Positions, color_info \in ColorInfos :
      \E order \in Orders(overlap(data, <<start, end>>)) :
        LET r == apply_color(data, order, start, end, color_info)
        IN  /\ data' = r.data
            /\ last' = [op |-> "apply_color", start |-> start, end |-> end,
                        color_info |-> color_info, pre |-> data, raised |-> r.raised]
            /\ UNCHANGED <<patterns, clock, addedAt, it>>

\* str(colored_string).  self.string is set by the constructor and read by
\* __str__ only, so the string of the object is drawn where it is read.
Render ==
    /\ \E string \in Texts :
         last' = [op |-> "str", string |-> string, pre |-> data, out |-> str(string, data)]
    /\ UNCHANGED <<data, patterns, clock, addedAt, it>>

NextColored == ApplyColor \/ Render

SpecColored == InitColored /\ [][NextColored]_vars

(***************************************************************************)
(* Operations on one Intervals object.                                     *)
(***************************************************************************)
InitIntervals ==
    /\ data = EmptyData
    /\ last = [op |-> "none"]
    /\ patterns = <<>>
    /\ clock = 0
    /\ addedAt = <<>>
    /\ it = NoIterator

\* Intervals(intervals): the object is created by the first call of a run.
\* When the constructor raises, no object is returned; `built` is self.data
\* at that moment, and the run goes on with Intervals().
Construct ==
    /\ last.op = "none"
    /\ \E keys \in SUBSET Pairs, value \in ColorInfos :
         /\ Cardinality(keys) <= MaxKeys
         /\ \E order \in Orders(keys) :
              LET intervals == [k \in keys |-> value]
                  r == init_loop(EmptyData, intervals, order)
              IN  /\ data' = IF r.raised = None THEN r.data ELSE EmptyData
                  /\ last' = [op |-> "Intervals", intervals |-> intervals,
                              built |-> r.data, raised |-> r.raised]
    /\ UNCHANGED <<patterns, clock, addedAt, it>>

SetItem ==
    \E key \in Pairs, value \in ColorInfos :
        LET r == setitem(data, key, value)
        IN  /\ Cardinality(DOMAIN r.data) <= MaxKeys
            /\ data' = r.data
            /\ last' = [op |-> "setitem", key |-> key, value |-> value,
                        pre |-> data, raised |-> r.raised]
            /\ UNCHANGED <<patterns, clock, addedAt, it>>

DelItem ==
    \E key \in Pairs :
        LET r == delitem(data, key)
        IN  /\ data' = r.data
            /\ last' = [op |-> "delitem", key |-> key, pre |-> data, raised |-> r.raised]
            /\ UNCHANGED <<patterns, clock, addedAt, it>>

Overlap ==
    \E interval \in Pairs :
        /\ last' = [op |-> "overlap", interval |-> interval, pre |-> data,
                    result |-> overlap(data, interval)]
        /\ UNCHANGED <<data, patterns, clock, addedAt, it>>

\* list(intervals), list(intervals.items()) and len(intervals)
Iterate ==
    /\ last' = [op |-> "iter", pre |-> data, keys |-> intervals_iter(data),
                items |-> intervals_items(data), len |-> intervals_len(data)]
    /\ UNCHANGED <<data, patterns, clock, addedAt, it>>

NextIntervals == Construct \/ SetItem \/ DelItem \/ Overlap \/ Iterate

SpecIntervals == InitIntervals /\ [][NextIntervals]_vars

(***************************************************************************)
(* Operations on the rule set of one Matcher, with the history of the      *)
(* calls.                                                                  *)
(***************************************************************************)
\* Pattern strings passed to the rule-set calls; "(" does not compile.
RuleRegexes == {<<"a">>, <<".", "b">>, <<"(", "a", ")">>, <<"(">>}

\* (foreground, background) arguments of add_pattern; "pink" is no color of
\* termcolor, and "on_white" is a background as the tests pass it.
RuleColorArgs == {<<"red", None>>, <<"blue", "white">>, <<"pink", None>>, <<"blue", "on_white">>}

\* The *args of add_group_pattern: a tuple of color tuples.
RuleGroupArgs == {<<>>, << <<"red">> >>, << <<"red">>, <<"blue", "white">> >>, << <<"pink">> >>}

InitRules ==
    /\ data = EmptyData
    /\ last = [op |-> "Matcher"]
    /\ patterns = <<>>
    /\ clock = 0
    /\ addedAt = <<>>
    /\ it = NoIterator

\* The history after a call on pattern string regex.
Record(regex, added, removed) ==
    /\ clock' = clock + 1
    /\ addedAt' = IF added THEN Put(addedAt, regex, clock + 1)
                  ELSE IF removed THEN [r \in (DOMAIN addedAt) \ {regex} |-> addedAt[r]]
                  ELSE addedAt

AddPattern ==
    /\ clock < MaxOps
    /\ \E regex \in RuleRegexes, c \in RuleColorArgs :
         LET r == add_pattern(patterns, regex, c[1], c[2])
         IN  /\ patterns' = r.patterns
             /\ last' = [op |-> "add_pattern", regex |-> regex, group |-> FALSE,
                         args |-> c, pre |-> patterns, raised |-> r.raised]
             /\ Record(regex, r.raised = None, FALSE)
    /\ UNCHANGED <<data, it>>

AddGroupPattern ==
    /\ clock < MaxOps
    /\ \E regex \in RuleRegexes, args \in RuleGroupArgs :
         LET r == add_group_pattern(patterns, regex, args)
         IN  /\ patterns' = r.patterns
             /\ last' = [op |-> "add_group_pattern", regex |-> regex, group |-> TRUE,
                         args |-> args, pre |-> patterns, raised |-> r.raised]
             /\ Record(regex, r.raised = None, FALSE)
    /\ UNCHANGED <<data, it>>

RemovePattern ==
    /\ clock < MaxOps
    /\ \E regex \in RuleRegexes :
         LET r == remove_pattern(patterns, regex)
         IN  /\ patterns' = r.patterns
             /\ last' = [op |-> "remove_pattern", regex |-> regex,
                         pre |-> patterns, raised |-> r.raised]
             /\ Record(regex, FALSE, r.raised = None)
    /\ UNCHANGED <<data, it>>

NextRules == AddPattern \/ AddGroupPattern \/ RemovePattern

SpecRules == InitRules /\ [][NextRules]_vars

(***************************************************************************)
(* A Matcher is configured, then a text is matched, as main() does.        *)
(* match only reads self.patterns, so the calls that may follow a match    *)
(* are those that may follow the state before it: a run ends at its match. *)
(***************************************************************************)
InitMatcher ==
    /\ data = EmptyData
    /\ last = [op |-> "Matcher"]
    /\ patterns = <<>>
    /\ clock = 0
    /\ addedAt = <<>>
    /\ it = NoIterator

\* m.add_pattern(regex, c[0], c[1]) on a Matcher of at most max rules.
Configure(regexes, colors, max) ==
    /\ last.op # "match"
    /\ \E regex \in regexes, c \in colors :
         LET r == add_pattern(patterns, regex, c[1], c[2])
         IN  /\ Len(r.patterns) <= max
             /\ patterns' = r.patterns
             /\ last' = [op |-> "add_pattern"]
    /\ UNCHANGED <<data, clock, addedAt, it>>

\* m.add_group_pattern(regex, *args) on a Matcher of at most max rules.
ConfigureGroup(regexes, arglists, max) ==
    /\ last.op # "match"
    /\ \E regex \in regexes, args \in arglists :
         LET r == add_group_pattern(patterns, regex, args)
         IN  /\ Len(r.patterns) <= max
             /\ patterns' = r.patterns
             /\ last' = [op |-> "add_group_pattern"]
    /\ UNCHANGED <<data, clock, addedAt, it>>

\* m.match(text): data is the store of the ColoredString the call created,
\* which the caller receives unless the call raised.
MatchText ==
    /\ last.op # "match"
    /\ \E text \in Texts :
         \E o \in match(patterns, text) :
            /\ data' = o.data
            /\ last' = [op |-> "match", text |-> text, raised |-> o.raised, calls |-> o.calls]
    /\ UNCHANGED <<patterns, clock, addedAt, it>>

\* Whole-match rules: literals and wildcards whose matches overlap, and the
\* empty regex, whose matches are empty.
WholeRegexes == {<<"a">>, <<".", "b">>, <<"b", ".">>, <<>>}
WholeColorArgs == {<<"red", None>>, <<"green", None>>, <<"blue", "white">>}

ConfigureWhole == Configure(WholeRegexes, WholeColorArgs, MaxRules)

NextWhole == ConfigureWhole \/ MatchText

SpecWhole == InitMatcher /\ [][NextWhole]_vars

\* Rules of both variants.  The group rules: no group; one group inside the
\* match; three groups; a group in each branch of an alternation, of which
\* one participates; an empty group.
MixedWholeRegexes == {<<".", "b">>, <<"a">>}
MixedWholeColorArgs == {<<"red", None>>}
GroupRegexes == {<<"a", "b">>,
                 <<"a", "(", "b", ")">>,
                 <<"(", "a", ")", "(", ".", ")", "(", "b", ")">>,
                 <<"(", "a", ")", "|", "(", "b", ")">>,
                 <<"a", "(", ")">>}
GroupArgs == {<<>>,
              << <<"green">> >>,
              << <<"green">>, <<"blue", "white">> >>,
              << <<"green">>, <<"blue", "white">>, <<"yellow">> >>}

ConfigureMixedWhole == Configure(MixedWholeRegexes, MixedWholeColorArgs, MaxMixedRules)

ConfigureMixedGroup == ConfigureGroup(GroupRegexes, GroupArgs, MaxMixedRules)

NextGroup == ConfigureMixedWhole \/ ConfigureMixedGroup \/ MatchText

SpecGroup == InitMatcher /\ [][NextGroup]_vars

(***************************************************************************)
(* A Matcher whose rules change while its texts are matched, one by one    *)
(* with match and through one generator of match_iter.                     *)
(***************************************************************************)
\* The rules: a literal, and the empty regex, on whose matches match raises.
IterRegexes == {<<"a">>, <<>>}
IterColorArgs == {<<"red", None>>, <<"green", None>>}

\* The lines: one the literal matches, one it does not.
IterTexts == {<<"a", "b">>, <<"b">>}

\* The iterables passed to match_iter: lists of at most MaxLines lines.
IterInputs == UNION {[1..n -> IterTexts] : n \in 0..MaxLines}

\* m.add_pattern(regex, c[0], c[1]), at any moment.
IterAddPattern ==
    /\ \E regex \in IterRegexes, c \in IterColorArgs :
         LET r == add_pattern(patterns, regex, c[1], c[2])
         IN  /\ patterns' = r.patterns
             /\ last' = [op |-> "add_pattern"]
    /\ UNCHANGED <<data, clock, addedAt, it>>

\* m.remove_pattern(regex), at any moment.
IterRemovePattern ==
    /\ \E regex \in IterRegexes :
         LET r == remove_pattern(patterns, regex)
         IN  /\ patterns' = r.patterns
             /\ last' = [op |-> "remove_pattern"]
    /\ UNCHANGED <<data, clock, addedAt, it>>

\* m.match(text), at any moment: data is the store of the ColoredString the
\* call created.
MatchLine ==
    /\ \E text \in IterTexts :
         \E o \in match(patterns, text) :
            /\ data' = o.data
            /\ last' = [op |-> "match", pre |-> patterns, text |-> text, raised |-> o.raised]
    /\ UNCHANGED <<patterns, clock, addedAt, it>>

\* results = m.match_iter(iterable), once in a run.
MatchIter ==
    /\ it.state = "none"
    /\ \E iterable \in IterInputs : it' = match_iter(iterable)
    /\ last' = [op |-> "match_iter"]
    /\ UNCHANGED <<data, patterns, clock, addedAt>>

\* next(results), at most MaxLines + 1 times: data is the store of the
\* ColoredString the match call inside created, if one was made.
NextResult ==
    /\ it.state # "none"
    /\ it.requested <= MaxLines
    /\ \E r \in gen_next(it, patterns) :
         /\ it' = r.it
         /\ data' = r.data
         /\ last' = [op |-> "next", pre |-> patterns, text |-> r.text, raised |-> r.raised]
    /\ UNCHANGED <<patterns, clock, addedAt>>

NextIter == IterAddPattern \/ IterRemovePattern \/ MatchLine \/ MatchIter \/ NextResult

SpecIter == InitMatcher /\ [][NextIter]_vars

(***************************************************************************)
(* Properties of the interval store.                                       *)
(***************************************************************************)
\* No two distinct keys of d overlap (strict, half-open).
NoOverlap(d) ==
    \A k1, k2 \in DOMAIN d : k1 # k2 => ~(k1[1] < k2[2] /\ k2[1] < k1[2])

\* The keys of d that cover character position i.
Covering(d, i) == {k \in DOMAIN d : k[1] <= i /\ i < k[2]}

\* The payloads d gives character position i.
ColorsAt(d, i) == {d[k] : k \in Covering(d, i)}

\* C1: after any sequence of apply_color calls on an empty ColoredString,
\* returning or raising, no two distinct keys of the store overlap.
C1_NoOverlap == NoOverlap(data)

\* C2: apply_color(start, end, p) with start < end on a store without
\* overlapping keys leaves every position of [start, end) covered by exactly
\* one interval, with payload p, and every other position with the payload it
\* had (or uncovered as it was).
C2_InsertGuarantee ==
    (last.op = "apply_color" /\ last.start < last.end /\ NoOverlap(last.pre)) =>
        /\ last.raised = None
        /\ \A i \in Positions :
             IF last.start <= i /\ i < last.end
             THEN /\ Cardinality(Covering(data, i)) = 1
                  /\ ColorsAt(data, i) = {last.color_info}
             ELSE /\ Cardinality(Covering(data, i)) = Cardinality(Covering(last.pre, i))
                  /\ ColorsAt(data, i) = ColorsAt(last.pre, i)

\* An insert strictly inside a stored interval of another payload, which is
\* split into two remainders.
C2_Witness ==
    /\ last.op = "apply_color" /\ last.start < last.end /\ NoOverlap(last.pre)
    /\ \E k \in DOMAIN last.pre :
         /\ k[1] < last.start /\ last.end < k[2]
         /\ last.pre[k] # last.color_info
         /\ <<k[1], last.start>> \in DOMAIN data
         /\ <<last.end, k[2]>> \in DOMAIN data

\* The characters of a rendered string, wrapping aside.
RECURSIVE Flatten(_)
Flatten(out) == IF out = <<>> THEN <<>> ELSE Head(out).text \o Flatten(Tail(out))

\* The character position at which unit j of a rendered string starts.
OffsetOf(out, j) == Len(Flatten(SubSeq(out, 1, j - 1)))

\* C16: for a ColoredString whose store has no overlapping keys and whose
\* keys lie within [0, len(string)], the rendering is the characters of the
\* string, each once and in order; the wrapped units are exactly the stored
\* intervals, each the characters of its interval wrapped once with its
\* payload; all other characters are not wrapped.
C16_Rendering ==
    (/\ last.op = "str"
     /\ NoOverlap(last.pre)
     /\ \A k \in DOMAIN last.pre : 0 <= k[1] /\ k[2] <= Len(last.string)) =>
        LET out == last.out
            units == {j \in 1..Len(out) : out[j].wrapped}
        IN  /\ Flatten(out) = last.string
            /\ Cardinality(units) = Cardinality(DOMAIN last.pre)
            /\ \A k \in DOMAIN last.pre :
                 \E j \in units :
                    /\ OffsetOf(out, j) = k[1]
                    /\ Len(out[j].text) = k[2] - k[1]
                    /\ out[j].color_info = last.pre[k]
            /\ data = last.pre

\* Two intervals of different payloads with a character between them and
\* none before or after.
C16_Witness ==
    /\ last.op = "str"
    /\ Len(last.string) = 3
    /\ DOMAIN last.pre = {<<0, 1>>, <<2, 3>>}
    /\ last.pre[<<0, 1>>] # last.pre[<<2, 3>>]
    /\ Len(last.out) = 3
    /\ ~last.out[2].wrapped

\* C17: an apply_color call with start >= end on a store that holds
\* intervals raises, and the store holds the keys and payloads it held before
\* the call.
C17_RejectedInsertChangesNothing ==
    (/\ last.op = "apply_color"
     /\ last.start >= last.end
     /\ DOMAIN last.pre # {}) =>
        /\ last.raised = "AssertionError"
        /\ data = last.pre

\* C7: item assignment or construction with a key (start, end), start >= end,
\* raises and stores no such key; every key of the store has start < end.
C7_IntervalValidity ==
    /\ \A k \in DOMAIN data : k[1] < k[2]
    /\ (last.op = "setitem" /\ last.key[1] >= last.key[2]) =>
           (last.raised = "AssertionError" /\ data = last.pre)
    /\ (last.op = "Intervals" /\ \E k \in DOMAIN last.intervals : k[1] >= k[2]) =>
           /\ last.raised = "AssertionError"
           /\ \A k \in DOMAIN last.built : k[1] < k[2]

\* The key (n, n-1) assigned to a store that holds a key.
C7_Witness ==
    /\ last.op = "setitem" /\ last.key[1] > last.key[2]
    /\ last.raised = "AssertionError"
    /\ DOMAIN data # {}

\* C8: overlap(q) returns exactly the stored keys I with I.start < q.end and
\* q.start < I.end, and leaves the store as it was.
C8_OverlapQuery ==
    last.op = "overlap" =>
        /\ last.result = {k \in DOMAIN last.pre :
                            k[1] < last.interval[2] /\ last.interval[1] < k[2]}
        /\ data = last.pre

\* A query that overlaps one stored key and only touches another.
C8_Witness ==
    /\ last.op = "overlap"
    /\ last.result # {}
    /\ \E k \in DOMAIN data : k[2] = last.interval[1] /\ k \notin last.result

\* C14: after any sequence of item assignments and deletions, the keys and
\* the items iterated are every key of the store exactly once, in ascending
\* order of start and, for equal starts, of end; each item carries the
\* payload of its key; len is the number of distinct keys.
C14_OrderedTraversal ==
    last.op = "iter" =>
        /\ data = last.pre
        /\ {last.keys[i] : i \in 1..Len(last.keys)} = DOMAIN data
        /\ \A i, j \in 1..Len(last.keys) :
             i < j => \/ last.keys[i][1] < last.keys[j][1]
                      \/ /\ last.keys[i][1] = last.keys[j][1]
                         /\ last.keys[i][2] < last.keys[j][2]
        /\ Len(last.items) = Len(last.keys)
        /\ \A i \in 1..Len(last.keys) :
             last.items[i] = <<last.keys[i], data[last.keys[i]]>>
        /\ last.len = Cardinality(DOMAIN data)
        /\ last.len = Len(last.keys)

\* Two keys of one start and of different payloads iterated: the key of
\* the smaller end comes first.
C14_Witness ==
    /\ last.op = "iter"
    /\ last.len = 2
    /\ last.keys[1][1] = last.keys[2][1]
    /\ last.keys[1][2] < last.keys[2][2]
    /\ last.items[1][2] # last.items[2][2]

(***************************************************************************)
(* Properties of the rule set.                                             *)
(***************************************************************************)
\* The payload a color tuple (foreground[, background]) stands for.
Supplied(colors) ==
    <<colors[1], IF Len(colors) >= 2 /\ colors[2] # None THEN "on_" \o colors[2] ELSE None>>

\* The positions of pattern string regex in pats.
Places(pats, regex) == {i \in 1..Len(pats) : pats[i].regex = regex}

\* C5: a successful add of a pattern string the set already holds leaves the
\* number of rules as it was, and leaves exactly one rule for that string,
\* with the payload and the variant just supplied.
C5_ReplaceOnReAdd ==
    (/\ last.op \in {"add_pattern", "add_group_pattern"}
     /\ last.raised = None
     /\ last.regex \in Keys(last.pre)) =>
        /\ Len(patterns) = Len(last.pre)
        /\ Cardinality(Places(patterns, last.regex)) = 1
        /\ \A i \in Places(patterns, last.regex) :
             /\ patterns[i].group = last.group
             /\ patterns[i].color_info =
                  IF last.group THEN [j \in 1..Len(last.args) |-> Supplied(last.args[j])]
                  ELSE Supplied(last.args)

\* A whole-match rule replaced by a group rule, in a set of two rules.
C5_Witness ==
    /\ last.op = "add_group_pattern" /\ last.raised = None
    /\ Len(last.pre) = 2
    /\ \E i \in Places(last.pre, last.regex) : ~last.pre[i].group
    /\ last.args # <<>>

\* C6: the rule set holds exactly the pattern strings added and not removed
\* since, each once, in ascending order of the time of their most recent add.
C6_ApplicationOrder ==
    /\ Keys(patterns) = DOMAIN addedAt
    /\ \A i, j \in 1..Len(patterns) :
         i < j => addedAt[patterns[i].regex] < addedAt[patterns[j].regex]

\* A re-add of the first of two rules, which moves it to the end.
C6_Witness ==
    /\ last.op \in {"add_pattern", "add_group_pattern"} /\ last.raised = None
    /\ Len(last.pre) = 2
    /\ last.pre[1].regex = last.regex
    /\ patterns[2].regex = last.regex
    /\ patterns[1] = last.pre[2]

\* C11: remove_pattern of a pattern string the rule set does not hold raises
\* KeyError to the caller and leaves the rules and their order as they were.
C11_RemoveAbsent ==
    (last.op = "remove_pattern" /\ last.regex \notin Keys(last.pre)) =>
        /\ last.raised = "KeyError"
        /\ patterns = last.pre

\* The removal, as the third call or later, of a pattern string the set does
\* not hold, from a set that holds a rule.
C11_Witness ==
    /\ last.op = "remove_pattern" /\ last.raised = "KeyError"
    /\ patterns # <<>>
    /\ last.regex \notin DOMAIN addedAt
    /\ clock >= 3

\* C12: an add_pattern or add_group_pattern call that raises (a regex that
\* does not compile, a color that is not recognized) leaves the rule set as
\* it was: no rule more, and a rule already held for the pattern string
\* keeps its variant, its payload and its place.
C12_FailedAddRegistersNothing ==
    (last.op \in {"add_pattern", "add_group_pattern"} /\ last.raised # None) =>
        /\ patterns = last.pre
        /\ last.raised \in {"re.error", "ValueError"}

\* A re-add with an unrecognized color of the first of two rules.
C12_Witness ==
    /\ last.op \in {"add_pattern", "add_group_pattern"}
    /\ last.raised = "ValueError"
    /\ Len(last.pre) = 2
    /\ last.pre[1].regex = last.regex
    /\ patterns[1] = last.pre[1]

\* C15: add_pattern with a recognized foreground and with the background
\* given as "on_" followed by a recognized color, as add_pattern('x', 'blue',
\* 'on_white'), returns and registers the rule with that foreground and
\* that background.
C15_OnBackgroundAccepted ==
    (/\ last.op = "add_pattern"
     /\ compile(last.regex).ok
     /\ last.args[1] \in COLORS
     /\ last.args[2] \in HIGHLIGHTS) =>
        /\ last.raised = None
        /\ \E i \in Places(patterns, last.regex) :
             patterns[i].color_info = <<last.args[1], last.args[2]>>

(***************************************************************************)
(* Properties of match.                                                    *)
(***************************************************************************)
Max(S) == CHOOSE x \in S : \A y \in S : x >= y

\* The character positions of text.
Chars(text) == 0..(Len(text) - 1)

\* The matches of rule r of the rule set on text, as regs.
Matches(r, text) == finditer(compile(patterns[r].regex), text)

\* Whether interval covers character position i.
Covers(interval, i) == interval[1] <= i /\ i < interval[2]

\* The rules with a match on text that covers position i.
CoveringRules(text, i) ==
    {r \in 1..Len(patterns) :
       \E m \in 1..Len(Matches(r, text)) : Covers(Matches(r, text)[m][1], i)}

\* C3: with whole-match rules only and no empty match, match(text) returns,
\* every position covered by a match carries the color of the last rule, in
\* application order, with a match covering it, and no other position is
\* colored.
C3_LastRuleWins ==
    (/\ last.op = "match"
     /\ \A r \in 1..Len(patterns) :
          /\ ~patterns[r].group
          /\ \A m \in 1..Len(Matches(r, last.text)) :
               Matches(r, last.text)[m][1][1] < Matches(r, last.text)[m][1][2]) =>
        /\ last.raised = None
        /\ \A i \in Chars(last.text) :
             /\ Cardinality(Covering(data, i)) <= 1
             /\ ColorsAt(data, i) =
                  IF CoveringRules(last.text, i) = {} THEN {}
                  ELSE {patterns[Max(CoveringRules(last.text, i))].color_info}
        /\ \A k \in DOMAIN data : 0 <= k[1] /\ k[2] <= Len(last.text)

\* Three rules of three colors; a position that the first two cover and the
\* third does not, and a position that the third covers.
C3_Witness ==
    /\ last.op = "match" /\ last.raised = None
    /\ Len(patterns) = 3
    /\ \A r \in 1..3 : ~patterns[r].group
    /\ patterns[1].color_info # patterns[2].color_info
    /\ patterns[2].color_info # patterns[3].color_info
    /\ \E i \in Chars(last.text) : CoveringRules(last.text, i) = {1, 2}
    /\ \E i \in Chars(last.text) : 3 \in CoveringRules(last.text, i)

\* The insertions a match makes: group i (from 1) of k with the payload of
\* index min(i, n) of n, none when n = 0 or k = 0; the span of the match
\* with the payload of a whole-match rule.
ExpectedPairs(pattern, regs) ==
    IF pattern.group
    THEN LET k == Len(regs) - 1
             n == Len(pattern.color_info)
         IN  IF n = 0 \/ k = 0 THEN <<>>
             ELSE [i \in 1..k |-> <<regs[i + 1], pattern.color_info[IF i <= n THEN i ELSE n]>>]
    ELSE << <<regs[1], pattern.color_info>> >>

RECURSIVE ExpectedOfMatches(_, _)
ExpectedOfMatches(pattern, matches) ==
    IF matches = <<>> THEN <<>>
    ELSE ExpectedPairs(pattern, Head(matches)) \o ExpectedOfMatches(pattern, Tail(matches))

\* The insertions of the first r rules on text, in application order.
RECURSIVE ExpectedCalls(_, _)
ExpectedCalls(r, text) ==
    IF r = 0 THEN <<>>
    ELSE ExpectedCalls(r - 1, text) \o ExpectedOfMatches(patterns[r], Matches(r, text))

\* C9: the insertions of match(text) are, rule by rule and match by match,
\* group i (0-based) with payload[min(i, n-1)] when n >= 1 and k >= 1, and
\* none when n = 0 or k = 0; a match that returns has made all of them, and
\* one that raises has stopped at an insertion with start >= end.
C9_GroupPayloadPairing ==
    last.op = "match" =>
        LET expected == ExpectedCalls(Len(patterns), last.text)
            made == last.calls
        IN  /\ Len(made) <= Len(expected)
            /\ made = SubSeq(expected, 1, Len(made))
            /\ last.raised = None => made = expected
            /\ last.raised # None =>
                 /\ made # <<>>
                 /\ made[Len(made)][1][1] >= made[Len(made)][1][2]

\* One group rule of two payloads and a match of three groups, colored with
\* the first payload, the second, and the second again.
C9_Witness ==
    /\ last.op = "match" /\ last.raised = None
    /\ Len(patterns) = 1 /\ patterns[1].group
    /\ Len(patterns[1].color_info) = 2
    /\ Len(last.calls) = 3
    /\ last.calls[1][2] = patterns[1].color_info[1]
    /\ last.calls[2][2] = patterns[1].color_info[2]
    /\ last.calls[3][2] = patterns[1].color_info[2]
    /\ DOMAIN data = {last.calls[j][1] : j \in 1..3}

\* The insertions on text with one of the span (-1, -1), where no other
\* insertion has start >= end.
OnlyNoSpanInvalid(text) ==
    LET expected == ExpectedCalls(Len(patterns), text)
    IN  /\ \E j \in 1..Len(expected) : expected[j][1] = NoSpan
        /\ \A j \in 1..Len(expected) :
             expected[j][1] = NoSpan \/ expected[j][1][1] < expected[j][1][2]

\* C10: when a group of a matching group rule did not participate, match
\* raises no error, inserts nothing for that group, and inserts the
\* intervals of the groups that did participate.
C10_NonParticipatingSkipped ==
    (last.op = "match" /\ OnlyNoSpanInvalid(last.text)) =>
        /\ last.raised = None
        /\ last.calls = SelectSeq(ExpectedCalls(Len(patterns), last.text),
                                  LAMBDA c : c[1] # NoSpan)

\* The colors the insertions of one match of a rule give position i.
RuleColorsAt(pattern, regs, i) ==
    {ExpectedPairs(pattern, regs)[j][2] :
       j \in {j \in 1..Len(ExpectedPairs(pattern, regs)) :
                Covers(ExpectedPairs(pattern, regs)[j][1], i)}}

\* C4 as claimed: for rules A before B, every character in the overlap of a
\* match of A and a match of B ends up with B's color (stated for the rules
\* B that color something: a whole-match rule, or a group rule with a
\* payload and a group).
C4_PriorityLaw ==
    (last.op = "match" /\ last.raised = None) =>
        \A a, b \in 1..Len(patterns) :
            a < b =>
              \A ma \in 1..Len(Matches(a, last.text)), mb \in 1..Len(Matches(b, last.text)) :
                \A i \in Chars(last.text) :
                   (/\ Covers(Matches(a, last.text)[ma][1], i)
                    /\ Covers(Matches(b, last.text)[mb][1], i)
                    /\ ExpectedPairs(patterns[b], Matches(b, last.text)[mb]) # <<>>) =>
                       ColorsAt(data, i) = RuleColorsAt(patterns[b], Matches(b, last.text)[mb], i)

\* The insertions, among the first n of calls, that cover position i.
CoveringCalls(calls, n, i) == {j \in 1..n : Covers(calls[j][1], i)}

\* C4 as amended: when match(text) returns, for rules A before B, every
\* character in the overlap of an insertion of A and an insertion of B ends
\* up with the color of the last insertion, in application order, that
\* covers it: one of B or of a later rule, never one of A.
C4_LastInsertionWins ==
    (last.op = "match" /\ last.raised = None) =>
        LET expected == ExpectedCalls(Len(patterns), last.text)
        IN  \A a, b \in 1..Len(patterns) :
              a < b =>
                LET upto_a == Len(ExpectedCalls(a, last.text))
                    before_b == Len(ExpectedCalls(b - 1, last.text))
                    upto_b == Len(ExpectedCalls(b, last.text))
                IN  \A i \in Chars(last.text) :
                      (/\ CoveringCalls(expected, upto_a, i) \ CoveringCalls(expected, Len(ExpectedCalls(a - 1, last.text)), i) # {}
                       /\ CoveringCalls(expected, upto_b, i) \ CoveringCalls(expected, before_b, i) # {}) =>
                          LET winner == Max(CoveringCalls(expected, Len(expected), i))
                          IN  /\ winner > before_b
                              /\ Cardinality(Covering(data, i)) = 1
                              /\ ColorsAt(data, i) = {expected[winner][2]}

\* A whole-match rule, then a group rule whose match covers a character of
\* the first rule's match outside its groups and another inside one: the
\* first keeps the whole-match color, the second takes the group's.
C4_Witness ==
    /\ last.op = "match" /\ last.raised = None
    /\ Len(patterns) = 2 /\ ~patterns[1].group /\ patterns[2].group
    /\ Len(patterns[2].color_info) >= 1
    /\ \E i \in Chars(last.text) :
         /\ CoveringRules(last.text, i) = {1, 2}
         /\ ColorsAt(data, i) = {patterns[1].color_info}
    /\ \E i \in Chars(last.text) :
         /\ CoveringRules(last.text, i) = {1, 2}
         /\ ColorsAt(data, i) = {patterns[2].color_info[1]}
         /\ patterns[2].color_info[1] # patterns[1].color_info

\* Some whole-match rule has a match of length zero on text, or some group
\* rule has a match with a capture-group span of length zero (the span
\* (-1, -1) of a group that did not participate counted as one).
ZeroLengthSpan(text) ==
    \E r \in 1..Len(patterns) :
      \E m \in 1..Len(Matches(r, text)) :
        LET regs == Matches(r, text)[m]
        IN  IF patterns[r].group
            THEN \E g \in 2..Len(regs) : regs[g][1] = regs[g][2]
            ELSE regs[1][1] = regs[1][2]

\* C19 as stated: match raises the AssertionError of the store when some
\* whole-match rule has a zero-length match or some group rule a zero-length
\* capture-group span; otherwise it returns, and has made every insertion
\* of every rule.
C19_AllOrNothing ==
    last.op = "match" =>
        /\ ZeroLengthSpan(last.text) => last.raised = "AssertionError"
        /\ ~ZeroLengthSpan(last.text) =>
             /\ last.raised = None
             /\ last.calls = ExpectedCalls(Len(patterns), last.text)

\* C19 as amended: match raises exactly when one of the insertions its rules
\* queue on the text (the span of each match of a whole-match rule; every
\* group span of each match of a group rule that has a payload and a group)
\* has start >= end, and it raises AssertionError; otherwise it returns with
\* every queued insertion made, that is, every character with the payload
\* of the last insertion that covers it, the others with none.
C19_RaisesIffQueuedInvalid ==
    last.op = "match" =>
        LET expected == ExpectedCalls(Len(patterns), last.text)
            invalid == \E j \in 1..Len(expected) : expected[j][1][1] >= expected[j][1][2]
        IN  /\ last.raised \in {None, "AssertionError"}
            /\ invalid <=> last.raised = "AssertionError"
            /\ last.raised = None =>
                 /\ last.calls = expected
                 /\ \A k \in DOMAIN data : 0 <= k[1] /\ k[2] <= Len(last.text)
                 /\ \A i \in Chars(last.text) :
                      LET covering == CoveringCalls(expected, Len(expected), i)
                      IN  ColorsAt(data, i) =
                            IF covering = {} THEN {} ELSE {expected[Max(covering)][2]}

\* A group rule with a payload whose match has an empty group raises after
\* the insertions of an earlier rule were made.
C19_Witness ==
    /\ last.op = "match" /\ last.raised = "AssertionError"
    /\ Len(patterns) = 2 /\ patterns[2].group
    /\ Len(last.calls) >= 2
    /\ LET failed == last.calls[Len(last.calls)][1]
       IN  failed[1] = failed[2] /\ failed[1] >= 0
    /\ data # EmptyData

(***************************************************************************)
(* Properties of match_iter and of successive matches.                     *)
(***************************************************************************)
\* The stores match(text) may return with rules pats.
Returned(pats, text) == {o.data : o \in {x \in match(pats, text) : x.raised = None}}

\* C13 as stated: at every moment the generator of match_iter has taken as
\* many lines from the iterable as results were requested of it, and its
\* i-th result is the match of the i-th line.
C13_PulledEqualsRequested ==
    it.state # "none" =>
        /\ it.pulled = it.requested
        /\ \A i \in 1..Len(it.results) :
             /\ it.results[i].string = it.iterable[i]
             /\ it.results[i].data \in Returned(it.used[i], it.iterable[i])

\* C13 as amended: the generator never has taken more lines than results
\* were requested of it; it has taken exactly as many, and yielded a result
\* for each, until a request finds the iterable exhausted or a match
\* raises, which closes it; later requests take nothing.  The i-th result
\* is the match of the i-th line.
C13_NeverPulledAhead ==
    it.state # "none" =>
        /\ it.pulled <= it.requested
        /\ it.pulled <= Len(it.iterable)
        /\ it.state # "closed" =>
             /\ it.pulled = it.requested
             /\ Len(it.results) = it.pulled
        /\ it.state = "closed" =>
             \/ /\ Len(it.results) = it.pulled        \* exhausted
                /\ it.pulled = Len(it.iterable)
                /\ it.requested > it.pulled
             \/ Len(it.results) = it.pulled - 1       \* the last match raised
        /\ \A i \in 1..Len(it.results) :
             /\ it.results[i].string = it.iterable[i]
             /\ it.results[i].data \in Returned(it.used[i], it.iterable[i])

\* One result requested of a list of two lines: the second line has not
\* been taken.
C13_Witness ==
    /\ it.state = "suspended"
    /\ Len(it.iterable) = 2
    /\ it.requested = 1 /\ it.pulled = 1 /\ Len(it.results) = 1
    /\ it.results[1].data # EmptyData

\* C18: a match call, made directly or by the generator of match_iter,
\* leaves the rule set as it was, and what it returns is decided by the rule
\* set and the text alone: one store for all iteration orders, which gives
\* every character of the text the payload of the last insertion of the
\* rules on this text that covers it and no payload to the others, whatever
\* was matched before.
C18_MatchSelfContained ==
    (last.op \in {"match", "next"} /\ last.raised # "StopIteration") =>
        LET expected == ExpectedCalls(Len(patterns), last.text)
        IN  /\ patterns = last.pre
            /\ last.raised = None =>
                 /\ Returned(patterns, last.text) = {data}
                 /\ \A o \in match(patterns, last.text) : o.raised = None
                 /\ \A k \in DOMAIN data : 0 <= k[1] /\ k[2] <= Len(last.text)
                 /\ \A i \in Chars(last.text) :
                      LET covering == CoveringCalls(expected, Len(expected), i)
                      IN  ColorsAt(data, i) =
                            IF covering = {} THEN {} ELSE {expected[Max(covering)][2]}

\* The second of two results computed with one rule set: the first line has
\* a colored character, the second, matched after it, has none.
C18_Witness ==
    /\ last.op = "next" /\ last.raised = None
    /\ Len(it.results) = 2
    /\ it.used[1] = patterns /\ it.used[2] = patterns
    /\ it.results[1].data # EmptyData
    /\ data = EmptyData

\* C20: every result the generator has yielded is the match of its line
\* with the rule set as it was when that result was requested, whatever the
\* rule set was when match_iter was called or has become since; the results
\* yielded before a change of the rule set stay as they were.
C20_LateBinding ==
    /\ Len(it.used) = Len(it.results)
    /\ \A i \in 1..Len(it.results) :
         Returned(it.used[i], it.results[i].string) = {it.results[i].data}
    /\ (last.op = "next" /\ last.raised = None) =>
         /\ it.used[Len(it.used)] = patterns
         /\ it.results[Len(it.results)].data = data

\* Two results for equal lines, the rule replaced between them and removed
\* after them: the first has the first color, the second the other.
C20_Witness ==
    /\ Len(it.results) = 2
    /\ it.results[1].string = it.results[2].string
    /\ it.results[1].data # it.results[2].data
    /\ DOMAIN it.results[1].data = DOMAIN it.results[2].data
    /\ it.used[1] # it.used[2]
    /\ patterns = <<>>

=============================================================================
